---- MODULE Spec2Model ----
(***************************************************************************)
(* Model of run_tests_sqlite.py: the command-line process that loads the   *)
(* schema into the SQLite store file, verifies row counts, runs the P2     *)
(* availability query and removes the store file.                          *)
(*                                                                         *)
(* Three specifications share the variables.  Spec runs processes one     *)
(* after another against the file system; the store's content is seen      *)
(* there through the per-table cardinalities that a SELECT COUNT query      *)
(* returns (rowCount).  SpecVerify starts inside verify_setup with a        *)
(* connection open on every row-count content around the minimums.         *)
(* SpecQuery starts inside test_p2_query with a connection open on a store  *)
(* whose rows (qdb) are drawn from bounded sets, and runs the query.        *)
(***************************************************************************)
EXTENDS Integers, Sequences, FiniteSets, TLC

VARIABLES
    schemaExists,   \* os.path.exists(SCHEMA_FILE)
    dbExists,       \* os.path.exists(DB_FILE)
    tables,         \* the store file holds the schema's tables
    rowCount,       \* table name -> number of rows (what the COUNT query returns)
    qdb,            \* row-level content read by the P2 query
    qrows,          \* rows fetched by the P2 query (cursor.fetchall())
    args,           \* the set of flags argparse found (store_true)
    pc,             \* position of the process
    op,             \* the function that called get_connection
    inTest,         \* a run_all_tests frame is active
    raising,        \* an exception is propagating through the finally block
    handles,        \* connection handles open in the process
    all_ok,         \* verify_setup's local
    ok,             \* run_all_tests's local
    vRet,           \* {value returned by the latest verify_setup call}, {} if none
    pRet,           \* {value returned by the latest test_p2_query call}, {} if none
    exitStatus,     \* exit status of the process (read when pc = "exited")
    term,           \* how the process ended: return, sys.exit, exception
    calls,          \* history: functions entered by this process, in order
    ran,            \* history: operations main dispatched, in order
    setupCommitted, \* history: a batch was committed since the last removal
    tdStreak,       \* history: teardown calls in succession (capped at 2)
    tdOutcome       \* history: branch taken by the last teardown_database

procVars == <<args, pc, op, inTest, raising, handles, all_ok, ok, vRet, pRet,
              exitStatus, term, calls, ran>>
fileVars == <<schemaExists, dbExists, tables, rowCount>>
histVars == <<setupCommitted, tdStreak, tdOutcome>>
queryVars == <<qdb, qrows>>
vars == <<fileVars, queryVars, procVars, histVars>>

----------------------------------------------------------------------------
(* Bounds *)

\* longest command line explored (number of flag tokens)
MaxArgs == 3
\* row counts explored per table: from one below its minimum, Slack values up
Slack == 1
\* shows in the row-level store
NumShows == 2
\* bookings in the row-level store
NumBookings == 3

----------------------------------------------------------------------------
(* Verifier constants *)

expected == << <<"Theater", 2>>, <<"Movie", 6>>, <<"Hall", 5>>,
               <<"Seat", 9>>, <<"Booking", 3>> >>

ShowMin == 20

TableNames == {expected[i][1] : i \in 1..Len(expected)} \cup {"Show"}

MinOf(t) ==
    IF t = "Show" THEN ShowMin
    ELSE LET i == CHOOSE j \in 1..Len(expected) : expected[j][1] = t
         IN expected[i][2]

\* the row counts explored by SpecVerify: every table holds from one row fewer
\* than its minimum up to Slack rows more than that
StoreContents ==
    {[t \in TableNames |-> MinOf(t) - 1 + d[t]] : d \in [TableNames -> 0..Slack]}

NoRows == [t \in TableNames |-> 0]

AtMinimum == [t \in TableNames |-> MinOf(t)]

\* the row counts the schema batches explored by Spec leave behind: tables
\* created without rows, every table at its minimum, and the latter with
\* one blocking table or the Show table one row short
SeedContents ==
    {NoRows, AtMinimum, [AtMinimum EXCEPT !["Booking"] = @ - 1],
     [AtMinimum EXCEPT !["Show"] = @ - 1]}

----------------------------------------------------------------------------
(* Row-level store read by the P2 query *)

\* the value of date('now'); show dates are day numbers relative to it
Today == 0

Dates == {Today - 1, Today, Today + 1}
StartTimes == {1, 2}
SeatIds == {1, 2, 3}
SeatSets == {{1}, {2}, {3}, {1, 2}}
Statuses == {"Confirmed", "Cancelled"}

TheaterRows == { [theater_id |-> 1, theater_name |-> "PVR: Nexus"],
                 [theater_id |-> 2, theater_name |-> "INOX: Forum"] }

HallRows == { [hall_id |-> 1, theater_id |-> 1, hall_name |-> "Hall A",
               seating_capacity |-> 50],
              [hall_id |-> 2, theater_id |-> 2, hall_name |-> "Hall B",
               seating_capacity |-> 2] }

MovieRows == { [movie_id |-> 1, title |-> "Movie One", is_active |-> 1],
               [movie_id |-> 2, title |-> "Movie Two", is_active |-> 0] }

SeatRows == {[seat_id |-> n, hall_id |-> 1] : n \in SeatIds}

ShowRow(i, h, m, d, t, a) ==
    [show_id |-> i, hall_id |-> h, movie_id |-> m, show_date |-> d,
     start_time |-> t, is_active |-> a]

ShowAttrs == [hall_id : {1, 2}, movie_id : {1, 2}, show_date : Dates,
              start_time : StartTimes, is_active : {0, 1}]

BookingAttrs == [show_id : {1, 2}, booking_status : Statuses, seats : SeatSets]

\* a store: the fixed Theater, Hall and Movie rows, the shows sh (a function
\* show_id -> attributes) and the bookings bk (booking_id -> attributes)
MakeDb(sh, bk) ==
    [ Theater |-> TheaterRows,
      Hall |-> HallRows,
      Movie |-> MovieRows,
      Seat |-> SeatRows,
      Show |-> {ShowRow(i, sh[i].hall_id, sh[i].movie_id, sh[i].show_date,
                        sh[i].start_time, sh[i].is_active) : i \in DOMAIN sh},
      Booking |-> {[booking_id |-> b, show_id |-> bk[b].show_id,
                    booking_status |-> bk[b].booking_status] : b \in DOMAIN bk},
      Booking_Seat |-> UNION {{[booking_id |-> b, seat_id |-> s] :
                                 s \in bk[b].seats} : b \in DOMAIN bk} ]

EmptyDb == MakeDb(<<>>, <<>>)

\* two eligible shows in the same hall, at different times
SampleShows == << [hall_id |-> 1, movie_id |-> 1, show_date |-> Today,
                   start_time |-> 2, is_active |-> 1],
                  [hall_id |-> 1, movie_id |-> 1, show_date |-> Today,
                   start_time |-> 1, is_active |-> 1] >>

\* one confirmed and one cancelled one-seat booking, both of show 1
SampleBookings == << [show_id |-> 1, booking_status |-> "Confirmed", seats |-> {1}],
                     [show_id |-> 1, booking_status |-> "Cancelled", seats |-> {2}] >>

\* the table cardinalities of a row-level store
CountsOf(db) == [t \in TableNames |-> Cardinality(db[t])]

----------------------------------------------------------------------------
(* The P2 query, lines 97-131 *)

\* Booking b INNER JOIN Booking_Seat bs ON b.booking_id = bs.booking_id
\* WHERE b.booking_status = 'Confirmed'
ConfirmedSeatRows(db) ==
    {j \in db.Booking \X db.Booking_Seat :
        /\ j[1].booking_id = j[2].booking_id
        /\ j[1].booking_status = "Confirmed"}

\* GROUP BY b.show_id with COUNT(bs.seat_id): one group per show that has at
\* least one joined row; the count is the number of joined rows of the group
booked_seats(db) ==
    LET J == ConfirmedSeatRows(db)
    IN [sid \in {j[1].show_id : j \in J} |->
            Cardinality({j \in J : j[1].show_id = sid})]

\* Show INNER JOIN Movie INNER JOIN Hall INNER JOIN Theater
JoinChain(db) ==
    {q \in db.Show \X db.Movie \X db.Hall \X db.Theater :
        /\ q[1].movie_id = q[2].movie_id
        /\ q[1].hall_id = q[3].hall_id
        /\ q[3].theater_id = q[4].theater_id}

\* INNER JOIN in place of the LEFT JOIN: joined rows without an aggregate row
\* are dropped
InnerJoinBooked(chain, agg) ==
    {[s |-> q[1], m |-> q[2], h |-> q[3], t |-> q[4],
      booked_count |-> {agg[q[1].show_id]}] :
        q \in {c \in chain : c[1].show_id \in DOMAIN agg}}

\* LEFT JOIN (...) booked_seats ON s.show_id = booked_seats.show_id: every
\* joined row is kept; booked_count is {} (NULL) without a matching group
LeftJoinBooked(chain, agg) ==
    {[s |-> q[1], m |-> q[2], h |-> q[3], t |-> q[4],
      booked_count |-> IF q[1].show_id \in DOMAIN agg
                       THEN {agg[q[1].show_id]} ELSE {}] : q \in chain}

\* COALESCE(x, d) with NULL as the empty set
COALESCE(x, d) == IF x = {} THEN d ELSE CHOOSE v \in x : TRUE

\* WHERE t.theater_name = 'PVR: Nexus' AND s.show_date = date('now')
\*   AND s.is_active = 1 AND m.is_active = 1
Where(r) ==
    /\ r.t.theater_name = "PVR: Nexus"
    /\ r.s.show_date = Today
    /\ r.s.is_active = 1
    /\ r.m.is_active = 1

\* the SELECT list; show_id is carried along to tell which show a row is of
SelectRow(r) ==
    [show_id |-> r.s.show_id,
     movie_title |-> r.m.title,
     hall_name |-> r.h.hall_name,
     show_timing |-> r.s.start_time,
     available_seats |-> r.h.seating_capacity - COALESCE(r.booked_count, 0)]

\* ORDER BY s.start_time ASC: every arrangement of the rows in which no row
\* comes before a row of smaller start time (ties in any order)
OrderBy(R) ==
    {q \in [1..Cardinality(R) -> R] :
        /\ \A i, j \in DOMAIN q : i # j => q[i] # q[j]
        /\ \A i, j \in DOMAIN q : i < j => q[i].show_timing <= q[j].show_timing}

P2Results(db) ==
    OrderBy({SelectRow(r) :
               r \in {x \in LeftJoinBooked(JoinChain(db), booked_seats(db)) :
                        Where(x)}})

----------------------------------------------------------------------------
(* Pure parts of the process *)

Tokens == {"--setup", "--verify", "--test-p2", "--test", "--teardown"}

\* argparse: the attribute a flag token sets (add_argument, lines 188-192)
DestOf(tok) ==
    CASE tok = "--setup" -> "setup"
      [] tok = "--verify" -> "verify"
      [] tok = "--test-p2" -> "test_p2"
      [] tok = "--test" -> "test"
      [] tok = "--teardown" -> "teardown"

\* the command lines explored
ArgvSet == UNION {[1..n -> Tokens] : n \in 0..MaxArgs}

\* parser.parse_args(): the attributes set to True, whatever the order and
\* the repetitions of the tokens
parse_args(argv) == {DestOf(argv[i]) : i \in DOMAIN argv}

\* os.path.exists(SCHEMA_FILE) taken as true whatever the file system says
SchemaFoundAlways(exists) == TRUE

\* line 33: os.path.exists(SCHEMA_FILE)
SchemaFound(exists) == exists

\* the loop of lines 68-74: all_ok is cleared by every table below its minimum
RECURSIVE CheckTables(_, _, _)
CheckTables(exp, counts, acc) ==
    IF exp = <<>> THEN acc
    ELSE LET table == Head(exp)[1]
             min_count == Head(exp)[2]
             count == counts[table]
             status == IF count >= min_count THEN "OK" ELSE "FAIL"
         IN CheckTables(Tail(exp), counts,
                        IF status = "FAIL" THEN FALSE ELSE acc)

\* the Show check treated as a blocking check
ShowCheckBlocking(acc, show_count) == acc /\ show_count >= ShowMin

\* lines 76-79: the Show check prints OK or WARN and leaves all_ok alone
ShowCheck(acc, show_count) == acc

\* "ok and test_p2_query()": the call is skipped when ok is false
P2CalledShortCircuit(verified) == verified

\* line 166, "test_p2_query() and ok": the call is the left operand, so it is
\* made whatever ok is
P2Called(verified) == TRUE

\* line 166: the value assigned to ok
AndResult(p2, verified) == p2 /\ verified

\* an exit status that ignores the result
ExitCodeZero(success) == 0

\* line 208: sys.exit(0 if success else 1)
ExitCode(success) == IF success THEN 0 ELSE 1

\* a teardown that reports a removal whatever it found
TeardownBranchAlwaysRemoved(exists) == "removed"

\* lines 177-181: the branch teardown_database takes
TeardownBranch(exists) == IF exists THEN "removed" ELSE "notfound"

Min2(a, b) == IF a < b THEN a ELSE b

----------------------------------------------------------------------------
(* The process *)

Init ==
    /\ schemaExists \in BOOLEAN
    /\ dbExists = FALSE
    /\ tables = FALSE
    /\ rowCount = NoRows
    /\ qdb = EmptyDb
    /\ qrows = <<>>
    /\ args = {}
    /\ pc = "idle"
    /\ op = "none"
    /\ inTest = FALSE
    /\ raising = FALSE
    /\ handles = 0
    /\ all_ok = TRUE
    /\ ok = TRUE
    /\ vRet = {}
    /\ pRet = {}
    /\ exitStatus = 0
    /\ term = "none"
    /\ calls = <<>>
    /\ ran = <<>>
    /\ setupCommitted = FALSE
    /\ tdStreak = 0
    /\ tdOutcome = "none"

\* the process ends: sys.exit(status), an uncaught exception (status 1) or
\* main returning (status 0)
Exit(status, how) ==
    /\ pc' = "exited"
    /\ exitStatus' = status
    /\ term' = how

\* a new process starts: lines 185-198
main_parse ==
    /\ pc \in {"idle", "exited"}
    /\ \E argv \in ArgvSet : args' = parse_args(argv)
    /\ op' = "none"
    /\ inTest' = FALSE
    /\ raising' = FALSE
    /\ handles' = 0
    /\ all_ok' = TRUE
    /\ ok' = TRUE
    /\ vRet' = {}
    /\ pRet' = {}
    /\ calls' = <<>>
    /\ ran' = <<>>
    /\ IF args' = {}
       THEN Exit(0, "sys.exit")
       ELSE pc' = "m_setup" /\ exitStatus' = 0 /\ term' = "none"
    /\ UNCHANGED <<fileVars, queryVars, histVars>>

\* lines 200-201 and 31-39
main_setup ==
    /\ pc = "m_setup"
    /\ IF "setup" \in args
       THEN /\ ran' = Append(ran, "setup")
            /\ calls' = Append(calls, "setup_database")
            /\ tdStreak' = 0
            /\ IF ~SchemaFound(schemaExists)
               THEN Exit(1, "sys.exit") /\ op' = op
               ELSE pc' = "connect" /\ op' = "setup"
                    /\ UNCHANGED <<exitStatus, term>>
       ELSE /\ pc' = "m_verify"
            /\ UNCHANGED <<ran, calls, tdStreak, op, exitStatus, term>>
    /\ UNCHANGED <<fileVars, queryVars, args, inTest, raising, handles, all_ok,
                   ok, vRet, pRet, setupCommitted, tdOutcome>>

\* line 26, sqlite3.connect(DB_FILE): opens the file, creating it when it is
\* absent, or raises; the callers hold no handle yet and catch nothing
get_connection_connect ==
    /\ pc = "connect"
    /\ calls' = Append(calls, "get_connection")
    /\ \/ /\ handles' = handles + 1
          /\ dbExists' = TRUE
          /\ pc' = "pragma"
          /\ UNCHANGED <<exitStatus, term>>
       \/ /\ Exit(1, "exception")
          /\ UNCHANGED <<handles, dbExists>>
    /\ UNCHANGED <<schemaExists, tables, rowCount, queryVars, args, op, inTest,
                   raising, all_ok, ok, vRet, pRet, ran, histVars>>

\* line 27, conn.execute('PRAGMA foreign_keys = ON;'): returns, or raises out
\* of get_connection with the connection open and no handler on the way
get_connection_pragma ==
    /\ pc = "pragma"
    /\ \/ /\ pc' = CASE op = "setup" -> "s_exec"
                     [] op = "verify" -> "v_body"
                     [] op = "test_p2" -> "p_body"
          /\ UNCHANGED <<exitStatus, term>>
       \/ Exit(1, "exception")
    /\ UNCHANGED <<fileVars, queryVars, args, op, inTest, raising, handles,
                   all_ok, ok, vRet, pRet, calls, ran, histVars>>

\* lines 42-45: executescript runs the batch statement by statement, each
\* statement taking effect as it runs; commit follows a batch that succeeded
setup_exec ==
    /\ pc = "s_exec"
    /\ \/ /\ tables' = TRUE
          /\ rowCount' \in SeedContents
          /\ setupCommitted' = TRUE
          /\ raising' = FALSE
       \/ /\ raising' = TRUE
          /\ UNCHANGED setupCommitted
          /\ \/ UNCHANGED <<tables, rowCount>>
             \/ /\ tables' = TRUE
                /\ rowCount' \in SeedContents
    /\ pc' = "close"
    /\ UNCHANGED <<schemaExists, dbExists, queryVars, args, op, inTest, handles,
                   all_ok, ok, vRet, pRet, exitStatus, term, calls, ran,
                   tdStreak, tdOutcome>>

\* lines 50-54 (verify_setup) entered with call history c
VerifyEntry(c) ==
    /\ calls' = Append(c, "verify_setup")
    /\ vRet' = {}
    /\ tdStreak' = 0
    /\ IF ~dbExists
       THEN Exit(1, "sys.exit") /\ op' = op
       ELSE pc' = "connect" /\ op' = "verify" /\ UNCHANGED <<exitStatus, term>>

\* lines 91-95 (test_p2_query) entered
P2Entry ==
    /\ calls' = Append(calls, "test_p2_query")
    /\ pRet' = {}
    /\ tdStreak' = 0
    /\ IF ~dbExists
       THEN Exit(1, "sys.exit") /\ op' = op
       ELSE pc' = "connect" /\ op' = "test_p2" /\ UNCHANGED <<exitStatus, term>>

\* lines 202-203
main_verify ==
    /\ pc = "m_verify"
    /\ IF "verify" \in args
       THEN ran' = Append(ran, "verify") /\ VerifyEntry(calls)
       ELSE /\ pc' = "m_test_p2"
            /\ UNCHANGED <<ran, calls, vRet, tdStreak, op, exitStatus, term>>
    /\ UNCHANGED <<fileVars, queryVars, args, inTest, raising, handles, all_ok,
                   ok, pRet, setupCommitted, tdOutcome>>

\* lines 65-79: a count query on a file without the tables raises
verify_body ==
    /\ pc = "v_body"
    /\ IF tables
       THEN /\ all_ok' = ShowCheck(CheckTables(expected, rowCount, TRUE),
                                   rowCount["Show"])
            /\ raising' = FALSE
       ELSE /\ all_ok' = TRUE
            /\ raising' = TRUE
    /\ pc' = "close"
    /\ UNCHANGED <<fileVars, queryVars, args, op, inTest, handles, ok, vRet,
                   pRet, exitStatus, term, calls, ran, histVars>>

\* lines 204-205
main_test_p2 ==
    /\ pc = "m_test_p2"
    /\ IF "test_p2" \in args
       THEN ran' = Append(ran, "test_p2") /\ P2Entry
       ELSE /\ pc' = "m_test"
            /\ UNCHANGED <<ran, calls, pRet, tdStreak, op, exitStatus, term>>
    /\ UNCHANGED <<fileVars, queryVars, args, inTest, raising, handles, all_ok,
                   ok, vRet, setupCommitted, tdOutcome>>

\* lines 135-154: the query on a file without the tables raises; otherwise
\* the rows are fetched and printed
test_p2_body ==
    /\ pc = "p_body"
    /\ IF tables
       THEN /\ qrows' \in P2Results(qdb)
            /\ raising' = FALSE
       ELSE /\ raising' = TRUE
            /\ UNCHANGED qrows
    /\ pc' = "close"
    /\ UNCHANGED <<fileVars, qdb, args, op, inTest, handles, all_ok, ok, vRet,
                   pRet, exitStatus, term, calls, ran, histVars>>

\* the finally blocks (lines 46-47, 81-82, 155-156) and what follows them:
\* the exception goes on to end the process, or the function returns
conn_close ==
    /\ pc = "close"
    /\ handles' = handles - 1
    /\ raising' = FALSE
    /\ IF raising
       THEN Exit(1, "exception") /\ UNCHANGED <<ok, vRet, pRet>>
       ELSE /\ UNCHANGED <<exitStatus, term>>
            /\ CASE op = "setup" ->
                      pc' = "m_verify" /\ UNCHANGED <<ok, vRet, pRet>>
                 [] op = "verify" ->
                      /\ vRet' = {all_ok}
                      /\ UNCHANGED pRet
                      /\ IF inTest
                         THEN ok' = all_ok /\ pc' = "t_p2"
                         ELSE ok' = ok /\ pc' = "m_test_p2"
                 [] op = "test_p2" ->
                      /\ pRet' = {TRUE}
                      /\ UNCHANGED vRet
                      /\ IF inTest
                         THEN ok' = AndResult(TRUE, ok) /\ pc' = "t_exit"
                         ELSE ok' = ok /\ pc' = "m_test"
    /\ UNCHANGED <<fileVars, queryVars, args, op, inTest, all_ok, calls, ran,
                   histVars>>

\* lines 206-207 and 159-164: run_all_tests calls verify_setup
main_test ==
    /\ pc = "m_test"
    /\ IF "test" \in args
       THEN /\ ran' = Append(ran, "test")
            /\ inTest' = TRUE
            /\ VerifyEntry(Append(calls, "run_all_tests"))
       ELSE /\ pc' = "m_teardown"
            /\ UNCHANGED <<ran, inTest, calls, vRet, tdStreak, op, exitStatus,
                           term>>
    /\ UNCHANGED <<fileVars, queryVars, args, raising, handles, all_ok, ok,
                   pRet, setupCommitted, tdOutcome>>

\* line 166: run_all_tests calls test_p2_query
run_all_tests_p2 ==
    /\ pc = "t_p2"
    /\ IF P2Called(ok)
       THEN P2Entry
       ELSE /\ pc' = "t_exit"
            /\ UNCHANGED <<calls, pRet, tdStreak, op, exitStatus, term>>
    /\ UNCHANGED <<fileVars, queryVars, args, inTest, raising, handles, all_ok,
                   ok, vRet, ran, setupCommitted, tdOutcome>>

\* lines 168-172 and 208: run_all_tests returns ok and main exits with it
run_all_tests_exit ==
    /\ pc = "t_exit"
    /\ Exit(ExitCode(ok), "sys.exit")
    /\ UNCHANGED <<fileVars, queryVars, args, op, inTest, raising, handles,
                   all_ok, ok, vRet, pRet, calls, ran, histVars>>

\* lines 209-210 and 175-181, then main returns
main_teardown ==
    /\ pc = "m_teardown"
    /\ IF "teardown" \in args
       THEN /\ ran' = Append(ran, "teardown")
            /\ calls' = Append(calls, "teardown_database")
            /\ tdOutcome' = TeardownBranch(dbExists)
            /\ tdStreak' = Min2(tdStreak + 1, 2)
            /\ dbExists' = FALSE
            /\ tables' = FALSE
            /\ rowCount' = NoRows
            /\ setupCommitted' = FALSE
       ELSE UNCHANGED <<ran, calls, tdOutcome, tdStreak, dbExists, tables,
                        rowCount, setupCommitted>>
    /\ Exit(0, "return")
    /\ UNCHANGED <<schemaExists, queryVars, args, op, inTest, raising, handles,
                   all_ok, ok, vRet, pRet>>

Next ==
    \/ main_parse
    \/ main_setup
    \/ get_connection_connect
    \/ get_connection_pragma
    \/ setup_exec
    \/ main_verify
    \/ verify_body
    \/ main_test_p2
    \/ test_p2_body
    \/ conn_close
    \/ main_test
    \/ run_all_tests_p2
    \/ run_all_tests_exit
    \/ main_teardown

Spec == Init /\ [][Next]_vars

----------------------------------------------------------------------------
(* verify_setup on every store content around the minimums *)

\* a process inside verify_setup, called from main or from run_all_tests,
\* with its connection open on a loaded store
InitVerify ==
    /\ schemaExists = TRUE
    /\ dbExists = TRUE
    /\ tables = TRUE
    /\ rowCount \in StoreContents
    /\ qdb = EmptyDb
    /\ qrows = <<>>
    /\ inTest \in BOOLEAN
    /\ args = IF inTest THEN {"test"} ELSE {"verify"}
    /\ pc = "v_body"
    /\ op = "verify"
    /\ raising = FALSE
    /\ handles = 1
    /\ all_ok = TRUE
    /\ ok = TRUE
    /\ vRet = {}
    /\ pRet = {}
    /\ exitStatus = 0
    /\ term = "none"
    /\ calls = IF inTest
               THEN <<"run_all_tests", "verify_setup", "get_connection">>
               ELSE <<"verify_setup", "get_connection">>
    /\ ran = IF inTest THEN <<"test">> ELSE <<"verify">>
    /\ setupCommitted = TRUE
    /\ tdStreak = 0
    /\ tdOutcome = "none"

NextVerify == verify_body \/ conn_close

SpecVerify == InitVerify /\ [][NextVerify]_vars

----------------------------------------------------------------------------
(* test_p2_query on row-level stores *)

\* a process inside test_p2_query, called from main, with its connection open
\* on a store that holds any choice of shows with the sample bookings, or any
\* choice of bookings of the sample shows
InitQuery ==
    /\ schemaExists = TRUE
    /\ dbExists = TRUE
    /\ tables = TRUE
    /\ \/ \E sh \in [1..NumShows -> ShowAttrs] : qdb = MakeDb(sh, SampleBookings)
       \/ \E bk \in [1..NumBookings -> BookingAttrs] : qdb = MakeDb(SampleShows, bk)
    /\ rowCount = CountsOf(qdb)
    /\ qrows = <<>>
    /\ inTest = FALSE
    /\ args = {"test_p2"}
    /\ pc = "p_body"
    /\ op = "test_p2"
    /\ raising = FALSE
    /\ handles = 1
    /\ all_ok = TRUE
    /\ ok = TRUE
    /\ vRet = {}
    /\ pRet = {}
    /\ exitStatus = 0
    /\ term = "none"
    /\ calls = <<"test_p2_query", "get_connection">>
    /\ ran = <<"test_p2">>
    /\ setupCommitted = TRUE
    /\ tdStreak = 0
    /\ tdOutcome = "none"

NextQuery == test_p2_body \/ conn_close

SpecQuery == InitQuery /\ [][NextQuery]_vars

----------------------------------------------------------------------------
(* Properties *)

Range(q) == {q[i] : i \in DOMAIN q}

\* the positions of calls at which function f was entered
CallsOf(f) == {i \in DOMAIN calls : calls[i] = f}

\* test_p2_query was entered after run_all_tests was
P2RanInTest ==
    \E i \in CallsOf("run_all_tests") : \E j \in CallsOf("test_p2_query") : i < j

Below(counts) ==
    {expected[i][1] : i \in {j \in 1..Len(expected) :
                                counts[expected[j][1]] < expected[j][2]}}

\* C1: whenever verify_setup has returned, its value is false if and only if
\* one of the five blocking tables holds fewer rows than its minimum; the
\* number of Show rows plays no part.
C1_VerifyResult ==
    vRet # {} => (vRet = {FALSE} <=> Below(rowCount) # {})

\* verify_setup returned true on a store whose Show table is below 20 rows
C1_Witness ==
    /\ vRet = {TRUE}
    /\ rowCount["Show"] < ShowMin
    /\ pc # "v_body"

\* the seats attached to Confirmed bookings of show sid
ConfirmedSeats(db, sid) ==
    {bs.seat_id : bs \in {x \in db.Booking_Seat :
        \E b \in db.Booking : /\ b.booking_id = x.booking_id
                              /\ b.show_id = sid
                              /\ b.booking_status = "Confirmed"}}

CapacityOf(db, sid) ==
    LET s == CHOOSE x \in db.Show : x.show_id = sid
        h == CHOOSE x \in db.Hall : x.hall_id = s.hall_id
    IN h.seating_capacity

\* C2: every returned row's available_seats is the hall's capacity minus the
\* number of distinct seats attached to Confirmed bookings of the row's show.
C2_DistinctSeats ==
    \A i \in DOMAIN qrows :
        qrows[i].available_seats =
            CapacityOf(qdb, qrows[i].show_id)
              - Cardinality(ConfirmedSeats(qdb, qrows[i].show_id))

\* the shows the claim says are reported
Eligible(db) ==
    {s \in db.Show :
        /\ \E h \in db.Hall : \E t \in db.Theater :
              /\ h.hall_id = s.hall_id
              /\ t.theater_id = h.theater_id
              /\ t.theater_name = "PVR: Nexus"
        /\ s.show_date = Today
        /\ s.is_active = 1
        /\ \E m \in db.Movie : m.movie_id = s.movie_id /\ m.is_active = 1}

StartOf(db, sid) == (CHOOSE x \in db.Show : x.show_id = sid).start_time

\* C3: the rows fetched are one row for each show at the theater named
\* 'PVR: Nexus', dated today, active and of an active movie, and no other row,
\* booked or not; a row of an earlier start time precedes a row of a later one.
C3_Rows ==
    pc # "p_body" =>
        /\ {qrows[i].show_id : i \in DOMAIN qrows}
              = {s.show_id : s \in Eligible(qdb)}
        /\ Len(qrows) = Cardinality(Eligible(qdb))
        /\ \A i, j \in DOMAIN qrows :
              StartOf(qdb, qrows[i].show_id) < StartOf(qdb, qrows[j].show_id)
                 => i < j

\* a show was left out and a show without any booking was reported
C3_Witness ==
    /\ pc # "p_body"
    /\ \E s \in qdb.Show : s.show_id \notin {qrows[i].show_id : i \in DOMAIN qrows}
    /\ \E i \in DOMAIN qrows :
          \A b \in qdb.Booking : b.show_id # qrows[i].show_id

\* C4 as claimed: every process that entered run_all_tests and has ended
\* entered test_p2_query after it.
C4_Unconditional ==
    (pc = "exited" /\ inTest) => P2RanInTest

\* C4 amended: run_all_tests calls verify_setup first; whenever that call
\* returns, with either value, test_p2_query is called next; the value
\* run_all_tests returns is the conjunction of the two results; and when
\* verify_setup does not return (store file absent, or an exception), the
\* process ends without test_p2_query having been called.
C4_AfterReturn ==
    /\ inTest => \A i \in CallsOf("run_all_tests") : calls[i + 1] = "verify_setup"
    /\ (inTest /\ vRet # {} /\ pc \in {"exited", "t_exit"}) => P2RanInTest
    /\ (inTest /\ vRet = {}) => ~P2RanInTest
    /\ (inTest /\ pc = "t_exit") =>
          /\ vRet # {} /\ pRet # {}
          /\ ok = ((TRUE \in vRet) /\ (TRUE \in pRet))

\* the Verifier returned false and the Reporter still ran and returned
C4_Witness ==
    /\ pc = "exited"
    /\ inTest
    /\ vRet = {FALSE}
    /\ pRet = {TRUE}
    /\ exitStatus = 1

\* C5: no process ends with a connection handle open, no operation is left
\* with one open, and at most one is open at any time.
C5_HandlesReleased ==
    /\ handles <= 1
    /\ pc \in {"exited", "m_setup", "m_verify", "m_test_p2", "m_test",
               "m_teardown", "t_p2", "t_exit"} => handles = 0

\* C6: between processes the store file exists if and only if a
\* setup_database run has committed the schema batch since the last teardown.
C6_FileIffSetup ==
    pc \in {"idle", "exited"} => (dbExists <=> setupCommitted)

\* C7: when the schema file is missing, setup_database ends the process with
\* status 1 at once: no connection is opened and the store file is left as
\* it was.
C7_NoPartialSetup ==
    [][(pc = "m_setup" /\ "setup" \in args /\ ~schemaExists) =>
          /\ pc' = "exited"
          /\ exitStatus' = 1
          /\ term' = "sys.exit"
          /\ calls' = Append(calls, "setup_database")
          /\ UNCHANGED <<handles, dbExists, tables, rowCount>>]_vars

\* setup_database was the only function entered and the process exited 1
C7_Witness ==
    /\ pc = "exited"
    /\ ~schemaExists
    /\ calls = <<"setup_database">>
    /\ exitStatus = 1

\* C8: a process that ran run_all_tests exits 0 exactly when both tests
\* returned true and 1 otherwise (Verifier false, an exception, store
\* missing); --verify alone exits 0 on a false result; a process without
\* flags exits 0 having run nothing.
C8_ExitStatus ==
    pc = "exited" =>
        /\ exitStatus \in {0, 1}
        /\ args = {} => (exitStatus = 0 /\ calls = <<>> /\ ran = <<>>)
        /\ inTest => (exitStatus = 0 <=> (vRet = {TRUE} /\ pRet = {TRUE}))
        /\ (args = {"verify"} /\ vRet = {FALSE}) => exitStatus = 0

\* a --test process whose Verifier returned false exited with status 1
C8_Witness ==
    /\ pc = "exited"
    /\ "test" \in args
    /\ vRet = {FALSE}
    /\ exitStatus = 1

\* C9: after teardown_database the store file is absent; a teardown that
\* directly follows a teardown takes the 'not found' branch, ends without
\* an error and leaves the files as they were.
C9_TeardownIdempotent ==
    /\ [](tdStreak >= 1 => ~dbExists)
    /\ [](tdStreak = 2 => tdOutcome = "notfound")
    /\ [][(pc = "m_teardown" /\ "teardown" \in args /\ tdStreak >= 1) =>
             /\ UNCHANGED fileVars
             /\ tdOutcome' = "notfound"
             /\ exitStatus' = 0 /\ term' = "return"]_vars

\* two teardowns in succession, the second finding nothing to remove
C9_Witness ==
    /\ pc = "exited"
    /\ tdStreak = 2
    /\ tdOutcome = "notfound"
    /\ exitStatus = 0

MainOrder == <<"setup", "verify", "test_p2", "test", "teardown">>

PosOf(f) == CHOOSE i \in DOMAIN MainOrder : MainOrder[i] = f

\* C10: the operations run in the fixed order, and a process that ended
\* without a failure status has run every operation its flags selected.
C10_AllSelectedRun ==
    /\ \A i, j \in DOMAIN ran : i < j => PosOf(ran[i]) < PosOf(ran[j])
    /\ (pc = "exited" /\ exitStatus = 0) => \A f \in args : f \in Range(ran)

====
